---- MODULE Spec2Model ----
(***************************************************************************)
(* Model of FetchArgs::run (src/src/cli/fetch.rs): fuzzy resolution of the  *)
(* category and supplier names, composition of the search parameters,       *)
(* supplier selection and load, fetch, persistence and the optional         *)
(* external "set_command".                                                   *)
(*                                                                           *)
(* Strings are sequences of characters (a character is a TLA+ string: an    *)
(* ASCII letter, or "U+00E9", which takes two bytes in UTF-8), so that      *)
(* chars().zip(), to_ascii_lowercase() and len() (a byte count) are         *)
(* computed as the code computes them.                                      *)
(* Option<T> is a sequence of length 0 (None) or 1 (Some).                  *)
(***************************************************************************)
EXTENDS Integers, Sequences, FiniteSets

VARIABLES config, args, pc, category, parameters, supplier_file,
          image_path, error, calls, files, launched, apply, stdout

vars == <<config, args, pc, category, parameters, supplier_file,
          image_path, error, calls, files, launched, apply, stdout>>

\* ------------------------------------------------------------- bounds
\* longest configured category list of the resolver runs
MaxEntries == 6
\* longest configured supplier list of the resolver runs
MaxSuppliers == 3
\* longest name typed by the user, in characters
MaxQueryLen == 2

\* ------------------------------------------------------------ options
None == <<>>
Some(x) == <<x>>
IsSome(o) == Len(o) = 1
Unwrap(o) == o[1]

SeqsUpTo(S, n) == UNION {[1..k -> S] : k \in 0..n}

\* ------------------------------------------------------------ strings
\* char::to_ascii_lowercase: only ASCII letters change.
ToAsciiLowercase(c) ==
    CASE c = "A" -> "a"
      [] c = "B" -> "b"
      [] OTHER -> c

\* Bytes of one char in UTF-8; str::len() counts bytes, chars() counts chars.
Utf8Len(c) == IF c = "U+00E9" THEN 2 ELSE 1

RECURSIVE StrLen(_)
StrLen(s) == IF s = <<>> THEN 0 ELSE Utf8Len(Head(s)) + StrLen(Tail(s))

Min(a, b) == IF a <= b THEN a ELSE b

\* name.chars().map(lower).zip(query.chars().map(lower)).filter(a == b).count()
Equality(name, query) ==
    Cardinality({i \in 1..Min(Len(name), Len(query)) :
                    ToAsciiLowercase(name[i]) = ToAsciiLowercase(query[i])})

\* entries.iter().map(|e| (e, equality)).collect(): the entry is kept as a
\* reference, here its index in the configured list.
Scored(entries, query) ==
    [i \in 1..Len(entries) |->
        [entry |-> i, simularity |-> Equality(entries[i].name, query)]]

\* ---------------------------------------------------------------- sort
\* Place of element i of a slice sorted by slice::sort_by, which is stable:
\* behind every element with a smaller key and every earlier element with
\* the same key.
Position(key, i) ==
    1 + Cardinality({j \in DOMAIN key :
                        key[j] < key[i] \/ (key[j] = key[i] /\ j < i)})

\* A sort that does not keep equal elements in their order (later first).
SortByKeyUnstable(s, key) ==
    LET pos == [i \in 1..Len(s) |->
                   1 + Cardinality({j \in 1..Len(s) :
                        key[j] < key[i] \/ (key[j] = key[i] /\ j > i)})]
    IN  [p \in 1..Len(s) |-> s[CHOOSE i \in 1..Len(s) : pos[i] = p]]

\* slice::sort_by with the ordering "key ascending".
SortByKey(s, key) ==
    LET pos == [i \in 1..Len(s) |-> Position(key, i)]
    IN  [p \in 1..Len(s) |-> s[CHOOSE i \in 1..Len(s) : pos[i] = p]]

\* categories.sort_by(|(_, s1), (_, s2)| s2.cmp(s1)): descending simularity.
SortCategories(scored) ==
    LET key == [i \in 1..Len(scored) |-> 0 - scored[i].simularity]
    IN  SortByKey(scored, key)

\* suppliers.sort_by(|(_, s1), (_, s2)| s1.cmp(s2)): ascending simularity.
SortSuppliers(scored) ==
    LET key == [i \in 1..Len(scored) |-> scored[i].simularity]
    IN  SortByKey(scored, key)

\* ----------------------------------------------------------- resolvers
\* Iterator::take(5)
TakeLimit == 5

Take(s, n) == SubSeq(s, 1, Min(n, Len(s)))

\* The suggestion list without the take(5).
SuggestionNamesAll(entries, sorted) ==
    [k \in 1..Len(sorted) |-> entries[sorted[k].entry].name]

\* categories.iter().take(5).map(|v| v.0.name)
SuggestionNames(entries, sorted) ==
    LET top == Take(sorted, TakeLimit)
    IN  [k \in 1..Len(top) |-> entries[top[k].entry].name]

\* simularity as f32 / name.len() as f32 >= 0.5; exact for these sizes, and
\* the length is not 0 here (the branch is entered with simularity # len).
AtLeastHalf(simularity, len) == 2 * simularity >= len

Resolved(i) ==
    [kind |-> "Ok", entry |-> i, message |-> "", suggestions |-> <<>>]
Ambiguous(i, name) ==
    [kind |-> "AmbiguousName", entry |-> i,
     message |-> "No category for name: {}, did you mean: {}?",
     suggestions |-> <<name>>]

\* Lines 47-88: the category resolver, for a non-empty list.
ResolveCategory(categories, category_name) ==
    LET scored == Scored(categories, category_name)
        sorted == SortCategories(scored)
        best == sorted[1]
    IN  IF best.simularity # StrLen(category_name)
        THEN IF AtLeastHalf(best.simularity, StrLen(category_name))
             THEN Ambiguous(best.entry, categories[best.entry].name)
             ELSE [kind |-> "UnknownName", entry |-> best.entry,
                   message |-> "No category for name: {}, did you mean one of these:{}",
                   suggestions |-> SuggestionNames(categories, sorted)]
        ELSE Resolved(best.entry)

\* Lines 120-153: the supplier resolver, for a non-empty list.
ResolveSupplier(suppliers, supplier_name) ==
    LET scored == Scored(suppliers, supplier_name)
        sorted == SortSuppliers(scored)
        best == sorted[1]
    IN  IF best.simularity # StrLen(supplier_name)
        THEN IF AtLeastHalf(best.simularity, StrLen(supplier_name))
             THEN Ambiguous(best.entry, suppliers[best.entry].name)
             ELSE [kind |-> "UnknownName", entry |-> best.entry,
                   message |-> "No suppliers for name: {}",
                   suggestions |-> <<>>]
        ELSE Resolved(best.entry)

\* ---------------------------------------------------- search parameters
\* Category tags in front of the ad-hoc tags.
ComposeCategoryFirst(cat, tags) ==
    IF IsSome(cat)
    THEN [tags |-> Unwrap(cat).tags \o tags,
          aspect_ratios |-> IF IsSome(Unwrap(cat).aspect_ratios)
                            THEN Unwrap(Unwrap(cat).aspect_ratios) ELSE <<>>]
    ELSE [tags |-> tags, aspect_ratios |-> <<>>]

\* Lines 94-110: self.tags.chain(category.tags), unwrap_or_default().
Compose(cat, tags) ==
    IF IsSome(cat)
    THEN [tags |-> tags \o Unwrap(cat).tags,
          aspect_ratios |-> IF IsSome(Unwrap(cat).aspect_ratios)
                            THEN Unwrap(Unwrap(cat).aspect_ratios) ELSE <<>>]
    ELSE [tags |-> tags, aspect_ratios |-> <<>>]

\* ---------------------------------------------------------------- paths
RelativePath == "wall.png"
AbsolutePath == "/home/u/wall.png"
NonUtf8Path == "/home/u/wall\\xFF.png"
\* The path image.cache() returns, under the cache root.
CachePath == "/cache/3f2a.png"

\* Path::to_str() is Some only for valid UTF-8.
Utf8(p) == p # NonUtf8Path

\* fs::canonicalize: the absolute form of a path (the working directory is
\* /home/u).
Canonicalize(p) == IF p = RelativePath THEN AbsolutePath ELSE p

\* -------------------------------------------------------- set_command
\* A command line is a sequence of atoms; " " is one space.
Space == " "
Placeholder == "{path}"

HasSpace(s) == \E i \in 1..Len(s) : s[i] = Space
FirstSpace(s) == CHOOSE i \in 1..Len(s) :
                    s[i] = Space /\ \A j \in 1..(i - 1) : s[j] # Space

\* command.split_once(' ').unwrap_or((command, ""))
SplitOnce(command) ==
    IF HasSpace(command)
    THEN [program |-> SubSeq(command, 1, FirstSpace(command) - 1),
          args |-> SubSeq(command, FirstSpace(command) + 1, Len(command))]
    ELSE [program |-> command, args |-> <<>>]

\* args.replace("{path}", path)
Replace(s, path) ==
    [i \in 1..Len(s) |-> IF s[i] = Placeholder THEN path ELSE s[i]]

\* args.split(' '): the pieces between the spaces; one empty piece for "".
RECURSIVE Split(_)
Split(s) ==
    IF HasSpace(s)
    THEN <<SubSeq(s, 1, FirstSpace(s) - 1)>>
            \o Split(SubSeq(s, FirstSpace(s) + 1, Len(s)))
    ELSE <<s>>

\* Lines 208-213: the program and the arguments handed to Command::new.
CommandLine(command, path) ==
    [program |-> SplitOnce(command).program,
     args |-> Split(Replace(SplitOnce(command).args, path))]

\* --------------------------------------------------------------- inputs
Name1 == <<"a", "b">>
Name2 == <<"a", "b", "U+00E9">>
Name3 == <<"B">>

Category1 == [name |-> Name1, tags |-> <<"t1">>, aspect_ratios |-> None]
Category2 == [name |-> Name2, tags |-> <<"t2", "t1">>,
              aspect_ratios |-> Some(<<"16:9", "21:9">>)]
Category3 == [name |-> Name3, tags |-> <<>>, aspect_ratios |-> Some(<<>>)]
CategoryPool == {Category1, Category2, Category3}

Supplier1 == [name |-> Name1, file |-> "one.toml"]
Supplier2 == [name |-> Name2, file |-> "two.toml"]
Supplier3 == [name |-> Name3, file |-> "three.toml"]
SupplierPool == {Supplier1, Supplier2, Supplier3}

QueryChars == {"A", "b", "U+00E9"}
Queries == SeqsUpTo(QueryChars, MaxQueryLen)

TagLists == {<<>>, <<"t1">>, <<"t3", "t1">>}
Commands == {<<"feh", Space, "--bg-fill", Space, Placeholder>>, <<"setwall">>}

NoError == [kind |-> "None", message |-> "", suggestions |-> <<>>]
NoCalls == [load |-> 0, fetch_one |-> 0, save_to_format |-> 0, cache |-> 0]

\* What a run starts from, apart from the configuration and the arguments.
Fresh ==
    /\ category = None
    /\ parameters = None
    /\ supplier_file = None
    /\ image_path = None
    /\ error = NoError
    /\ calls = NoCalls
    /\ files = {}
    /\ launched = <<>>
    /\ apply = "NotRun"
    /\ stdout = <<>>

\* A whole run, over short configured lists.
Init ==
    /\ config \in [categories : {<<>>, <<Category1, Category3>>, <<Category2, Category1>>},
                   suppliers : {<<>>, <<Supplier1>>, <<Supplier1, Supplier3>>},
                   set_command : {None} \cup {Some(c) : c \in Commands}]
    /\ args \in [assign : BOOLEAN,
                 output : {None, Some(RelativePath), Some(AbsolutePath), Some(NonUtf8Path)},
                 category : {None, Some(<<"A", "b">>), Some(<<"b", "b">>)},
                 supplier : {None, Some(<<"A", "b">>), Some(<<"b", "b">>)},
                 tags : TagLists,
                 simple : BOOLEAN]
    /\ pc = "ReadingConfig"
    /\ Fresh

\* The two name resolutions, over every category list up to MaxEntries, every
\* supplier list up to MaxSuppliers and every name up to MaxQueryLen, from
\* the point the configuration is read.
InitResolve ==
    /\ \/ /\ config \in [categories : SeqsUpTo(CategoryPool, MaxEntries),
                         suppliers : {<<Supplier1>>},
                         set_command : {None}]
          /\ args \in [assign : {FALSE}, output : {None},
                       category : {Some(q) : q \in Queries},
                       supplier : {None}, tags : {<<"t1">>}, simple : {FALSE}]
       \/ /\ config \in [categories : {<<>>},
                         suppliers : SeqsUpTo(SupplierPool, MaxSuppliers),
                         set_command : {None}]
          /\ args \in [assign : {FALSE}, output : {None},
                       category : {None},
                       supplier : {Some(q) : q \in Queries},
                       tags : {<<"t1">>}, simple : {FALSE}]
    /\ pc = "ResolvingCategory"
    /\ Fresh

\* -------------------------------------------------------------- actions
\* bail!(...) and the ? operator: the run returns Err.
Fail(kind, message, suggestions) ==
    /\ pc' = "Failed"
    /\ error' = [kind |-> kind, message |-> message, suggestions |-> suggestions]

Count(op) == [calls EXCEPT ![op] = @ + 1]

\* Line 40: GlobalConfig::read()?
ReadConfig ==
    /\ pc = "ReadingConfig"
    /\ \/ pc' = "ResolvingCategory" /\ UNCHANGED error
       \/ Fail("ConfigUnreadable", "", <<>>)
    /\ UNCHANGED <<config, args, category, parameters, supplier_file,
                   image_path, calls, files, launched, apply, stdout>>

\* Lines 41-92.
ResolvingCategory ==
    /\ pc = "ResolvingCategory"
    /\ \/ /\ args.category = None
          /\ category' = None
          /\ pc' = "ComposingParameters"
          /\ UNCHANGED error
       \/ /\ IsSome(args.category)
          /\ Len(config.categories) = 0
          /\ Fail("NoCandidatesConfigured", "No categories defined in config file.", <<>>)
          /\ UNCHANGED category
       \/ /\ IsSome(args.category)
          /\ Len(config.categories) # 0
          /\ \E r \in {ResolveCategory(config.categories, Unwrap(args.category))} :
                 \/ /\ r.kind = "Ok"
                    /\ category' = Some(r.entry)
                    /\ pc' = "ComposingParameters"
                    /\ UNCHANGED error
                 \/ /\ r.kind # "Ok"
                    /\ Fail(r.kind, r.message, r.suggestions)
                    /\ UNCHANGED category
    /\ UNCHANGED <<config, args, parameters, supplier_file, image_path,
                   calls, files, launched, apply, stdout>>

\* Lines 94-110.
ComposingParameters ==
    /\ pc = "ComposingParameters"
    /\ parameters' =
          Some(Compose(IF IsSome(category)
                       THEN Some(config.categories[Unwrap(category)]) ELSE None,
                       args.tags))
    /\ pc' = "ResolvingSupplier"
    /\ UNCHANGED <<config, args, category, supplier_file, image_path, error,
                   calls, files, launched, apply, stdout>>

\* Supplier selection without the check for an empty list.
ResolvingSupplierUnchecked ==
    /\ pc = "ResolvingSupplier"
    /\ supplier_file' = IF Len(config.suppliers) = 0 THEN None ELSE Some(1)
    /\ pc' = "LoadingSupplier"
    /\ UNCHANGED <<config, args, category, parameters, image_path, error,
                   calls, files, launched, apply, stdout>>

\* Lines 113-159.
ResolvingSupplier ==
    /\ pc = "ResolvingSupplier"
    /\ \/ /\ Len(config.suppliers) = 0
          /\ Fail("NoCandidatesConfigured", "No suppliers defined in config file.", <<>>)
          /\ UNCHANGED supplier_file
       \/ /\ Len(config.suppliers) # 0
          /\ IsSome(args.supplier)
          /\ \E r \in {ResolveSupplier(config.suppliers, Unwrap(args.supplier))} :
                 \/ /\ r.kind = "Ok"
                    /\ supplier_file' = Some(r.entry)
                    /\ pc' = "LoadingSupplier"
                    /\ UNCHANGED error
                 \/ /\ r.kind # "Ok"
                    /\ Fail(r.kind, r.message, r.suggestions)
                    /\ UNCHANGED supplier_file
       \/ /\ Len(config.suppliers) # 0
          /\ args.supplier = None
          \* config.suppliers.choose(&mut rand::thread_rng())
          /\ \E i \in 1..Len(config.suppliers) : supplier_file' = Some(i)
          /\ pc' = "LoadingSupplier"
          /\ UNCHANGED error
    /\ UNCHANGED <<config, args, category, parameters, image_path,
                   calls, files, launched, apply, stdout>>

\* Lines 161-175: read_to_string and toml::from_str of the chosen file.
LoadingSupplier ==
    /\ pc = "LoadingSupplier"
    /\ calls' = Count("load")
    /\ \/ pc' = "Fetching" /\ UNCHANGED error
       \/ Fail("SupplierDefinitionUnreadable", "Failed to read supplier file: {:?}, reason: {} ", <<>>)
       \/ Fail("SupplierDefinitionMalformed", "", <<>>)
    /\ UNCHANGED <<config, args, category, parameters, supplier_file,
                   image_path, files, launched, apply, stdout>>

\* A fetch that is tried again after a failure.
FetchingRetries ==
    /\ pc = "Fetching"
    /\ calls' = Count("fetch_one")
    /\ \/ pc' = "Persisting" /\ UNCHANGED error
       \/ calls.fetch_one = 0 /\ UNCHANGED <<pc, error>>
       \/ Fail("FetchFailed", "", <<>>)
    /\ UNCHANGED <<config, args, category, parameters, supplier_file,
                   image_path, files, launched, apply, stdout>>

\* Lines 177-187: supplier.get_wallpaper_image(parameters).await?
Fetching ==
    /\ pc = "Fetching"
    /\ calls' = Count("fetch_one")
    /\ \/ pc' = "Persisting" /\ UNCHANGED error
       \/ Fail("FetchFailed", "", <<>>)
    /\ UNCHANGED <<config, args, category, parameters, supplier_file,
                   image_path, files, launched, apply, stdout>>

AfterPersisting == IF args.assign THEN "ApplyingExternalCommand" ELSE "Reporting"

\* Lines 189-204.
Persisting ==
    /\ pc = "Persisting"
    /\ \/ /\ IsSome(args.output)
          /\ calls' = Count("save_to_format")
          /\ \/ \* image.save_to_format(&output_file)? fails
                /\ Fail("PersistenceFailed", "", <<>>)
                /\ UNCHANGED <<files, image_path>>
             \/ \* saved; fs::canonicalize(&output_file)? fails
                /\ files' = files \cup {Canonicalize(Unwrap(args.output))}
                /\ Fail("CanonicalizeFailed", "", <<>>)
                /\ UNCHANGED image_path
             \/ \* saved; .to_str().ok_or(..)? fails
                /\ ~Utf8(Canonicalize(Unwrap(args.output)))
                /\ files' = files \cup {Canonicalize(Unwrap(args.output))}
                /\ Fail("PathNotUtf8", "Failed to convert image path to string.", <<>>)
                /\ UNCHANGED image_path
             \/ /\ Utf8(Canonicalize(Unwrap(args.output)))
                /\ files' = files \cup {Canonicalize(Unwrap(args.output))}
                /\ image_path' = args.output
                /\ pc' = AfterPersisting
                /\ UNCHANGED error
       \/ /\ args.output = None
          /\ calls' = Count("cache")
          /\ \/ \* image.cache()? fails
                /\ Fail("PersistenceFailed", "", <<>>)
                /\ UNCHANGED <<files, image_path>>
             \/ /\ files' = files \cup {CachePath}
                /\ image_path' = Some(CachePath)
                /\ pc' = AfterPersisting
                /\ UNCHANGED error
    /\ UNCHANGED <<config, args, category, parameters, supplier_file,
                   launched, apply, stdout>>

\* The assign step returning Ok when no set_command is configured.
ApplyingExternalCommandLenient ==
    /\ pc = "ApplyingExternalCommand"
    /\ config.set_command = None
    /\ pc' = "Reporting"
    /\ UNCHANGED <<config, args, category, parameters, supplier_file, image_path,
                   error, calls, files, launched, apply, stdout>>

\* Lines 206-230, entered only with self.assign.
ApplyingExternalCommand ==
    /\ pc = "ApplyingExternalCommand"
    /\ \/ /\ config.set_command = None
          /\ Fail("MissingApplyCommand", "No 'set_command' entry present in config", <<>>)
          /\ UNCHANGED <<launched, apply, stdout>>
       \/ \* image_path.to_str().unwrap() or Command::output().unwrap() panics
          /\ IsSome(config.set_command)
          /\ apply' = IF Utf8(Unwrap(image_path)) THEN "LaunchFailed" ELSE "NotRun"
          /\ pc' = "Panicked"
          /\ UNCHANGED <<launched, error, stdout>>
       \/ /\ IsSome(config.set_command)
          /\ Utf8(Unwrap(image_path))
          /\ launched' = Append(launched,
                                CommandLine(Unwrap(config.set_command), Unwrap(image_path)))
          /\ \/ \* result.status.success()
                /\ apply' = "ExitZero"
                /\ stdout' = IF args.simple THEN stdout
                             ELSE Append(stdout, "Assigned to image as the active wallpaper.")
                /\ pc' = "Reporting"
                /\ UNCHANGED error
             \/ \* exit status not 0, stderr is UTF-8
                /\ apply' = "ExitNonZero"
                /\ stdout' = IF args.simple THEN stdout
                             ELSE Append(stdout, "Failed to assign wallpaper: {}")
                /\ pc' = "Reporting"
                /\ UNCHANGED error
             \/ \* exit status not 0, String::from_utf8(result.stderr)? fails
                /\ apply' = "ExitNonZeroNotUtf8"
                /\ UNCHANGED stdout
                /\ IF args.simple
                   THEN pc' = "Reporting" /\ UNCHANGED error
                   ELSE Fail("ApplyOutputNotUtf8", "", <<>>)
    /\ UNCHANGED <<config, args, category, parameters, supplier_file, image_path,
                   calls, files>>

\* Lines 232-241.
Reporting ==
    /\ pc = "Reporting"
    /\ \/ /\ ~args.simple
          /\ pc' = "Done"
          /\ UNCHANGED <<error, stdout>>
       \/ \* fs::canonicalize(&image_path)? fails
          /\ args.simple
          /\ Fail("CanonicalizeFailed", "", <<>>)
          /\ UNCHANGED stdout
       \/ /\ args.simple
          /\ Utf8(Canonicalize(Unwrap(image_path)))
          /\ stdout' = Append(stdout, Canonicalize(Unwrap(image_path)))
          /\ pc' = "Done"
          /\ UNCHANGED error
    /\ UNCHANGED <<config, args, category, parameters, supplier_file, image_path,
                   calls, files, launched, apply>>

Next ==
    \/ ReadConfig
    \/ ResolvingCategory
    \/ ComposingParameters
    \/ ResolvingSupplier
    \/ LoadingSupplier
    \/ Fetching
    \/ Persisting
    \/ ApplyingExternalCommand
    \/ Reporting

Spec == Init /\ [][Next]_vars

NextResolve ==
    \/ ResolvingCategory
    \/ ComposingParameters
    \/ ResolvingSupplier

SpecResolve == InitResolve /\ [][NextResolve]_vars

\* ------------------------------------------------------ name resolution
Lowered(s) == [i \in 1..Len(s) |-> ToAsciiLowercase(s[i])]
EqualIgnoringCase(a, b) == Lowered(a) = Lowered(b)

Scores(entries, query) == {Equality(entries[i].name, query) : i \in 1..Len(entries)}
MaxScore(entries, query) ==
    CHOOSE m \in Scores(entries, query) : \A x \in Scores(entries, query) : x <= m

\* The category resolver has run (on a non-empty list) and returned.
CategoryResolverRan ==
    /\ IsSome(args.category)
    /\ Len(config.categories) > 0
    /\ pc \notin {"ReadingConfig", "ResolvingCategory"}
    /\ error.kind # "ConfigUnreadable"
CategoryResolverFailed == CategoryResolverRan /\ pc = "Failed" /\ parameters = None

\* The supplier resolver has run (on a non-empty list) and returned.
SupplierResolverRan ==
    /\ IsSome(args.supplier)
    /\ Len(config.suppliers) > 0
    /\ IsSome(parameters)
    /\ pc # "ResolvingSupplier"
SupplierResolverFailed == SupplierResolverRan /\ pc = "Failed" /\ supplier_file = None

ExactMatch(entries, query) ==
    \E i \in 1..Len(entries) : EqualIgnoringCase(entries[i].name, query)
NearMiss(entries, query) ==
    /\ 2 * MaxScore(entries, query) >= StrLen(query)
    /\ MaxScore(entries, query) < StrLen(query)
FarMiss(entries, query) == 2 * MaxScore(entries, query) < StrLen(query)

\* C1: a name that equals one configured entry's name, ignoring case, is
\* resolved to an entry of that name, by the category resolver and by the
\* supplier resolver, whatever the order of the list and whatever the other
\* entries are.
C1_ExactNameResolves ==
    /\ (CategoryResolverRan /\ ExactMatch(config.categories, Unwrap(args.category)))
          => /\ IsSome(category)
             /\ EqualIgnoringCase(config.categories[Unwrap(category)].name,
                                  Unwrap(args.category))
    /\ (SupplierResolverRan /\ ExactMatch(config.suppliers, Unwrap(args.supplier)))
          => /\ IsSome(supplier_file)
             /\ EqualIgnoringCase(config.suppliers[Unwrap(supplier_file)].name,
                                  Unwrap(args.supplier))

\* The one suggestion of an AmbiguousName failure is a name of highest score.
SuggestsBest(entries, query) ==
    /\ error.kind = "AmbiguousName"
    /\ Len(error.suggestions) = 1
    /\ \E i \in 1..Len(entries) :
          /\ entries[i].name = error.suggestions[1]
          /\ Equality(entries[i].name, query) = MaxScore(entries, query)

\* C2: when the highest score over the candidates is at least half the
\* length of the name and less than the length, resolution fails with
\* AmbiguousName and suggests a candidate of that highest score, in the
\* category resolver and in the supplier resolver.
C2_NearMissIsAmbiguous ==
    /\ (CategoryResolverRan /\ NearMiss(config.categories, Unwrap(args.category)))
          => /\ CategoryResolverFailed
             /\ SuggestsBest(config.categories, Unwrap(args.category))
    /\ (SupplierResolverRan /\ NearMiss(config.suppliers, Unwrap(args.supplier)))
          => /\ SupplierResolverFailed
             /\ SuggestsBest(config.suppliers, Unwrap(args.supplier))

\* The suggestions are the min(5, n) candidates of highest score, in order
\* of non-increasing score: the k-th suggestion is a candidate's name and
\* its score is the k-th highest of the list.
TopSuggestions(entries, query) ==
    /\ Len(error.suggestions) = Min(TakeLimit, Len(entries))
    /\ \A k \in 1..Len(error.suggestions) :
          LET v == Equality(error.suggestions[k], query)
          IN  /\ \E i \in 1..Len(entries) : entries[i].name = error.suggestions[k]
              /\ k > 1 => Equality(error.suggestions[k - 1], query) >= v
              /\ Cardinality({i \in 1..Len(entries) :
                                 Equality(entries[i].name, query) > v}) < k
              /\ Cardinality({i \in 1..Len(entries) :
                                 Equality(entries[i].name, query) >= v}) >= k

\* C3, as claimed: when the highest score is below half the length of the
\* name, resolution fails with UnknownName and carries the min(5, n)
\* candidates of highest score in order of non-increasing score, in either
\* resolver.
C3_FarMissListsTopFive ==
    /\ (CategoryResolverRan /\ FarMiss(config.categories, Unwrap(args.category)))
          => /\ CategoryResolverFailed
             /\ error.kind = "UnknownName"
             /\ TopSuggestions(config.categories, Unwrap(args.category))
    /\ (SupplierResolverRan /\ FarMiss(config.suppliers, Unwrap(args.supplier)))
          => /\ SupplierResolverFailed
             /\ error.kind = "UnknownName"
             /\ TopSuggestions(config.suppliers, Unwrap(args.supplier))

\* C3, amended: when the highest score is below half the length of the
\* name, both resolvers fail with UnknownName; the category resolver carries
\* the min(5, n) candidates of highest score in order of non-increasing
\* score, the supplier resolver carries no suggestion.
C3_FarMissIsUnknown ==
    /\ (CategoryResolverRan /\ FarMiss(config.categories, Unwrap(args.category)))
          => /\ CategoryResolverFailed
             /\ error.kind = "UnknownName"
             /\ TopSuggestions(config.categories, Unwrap(args.category))
    /\ (SupplierResolverRan /\ FarMiss(config.suppliers, Unwrap(args.supplier)))
          => /\ SupplierResolverFailed
             /\ error.kind = "UnknownName"
             /\ error.suggestions = <<>>

\* C3 happens: more than five categories, none close to the name, five
\* suggestions of which the first scores higher than the last.
C3_Witness ==
    /\ CategoryResolverFailed
    /\ FarMiss(config.categories, Unwrap(args.category))
    /\ Len(config.categories) > TakeLimit
    /\ Len(error.suggestions) = TakeLimit
    /\ Equality(error.suggestions[1], Unwrap(args.category))
          > Equality(error.suggestions[TakeLimit], Unwrap(args.category))

\* C9: the empty name resolves, in both resolvers and for every non-empty
\* list, to the first configured entry.
C9_EmptyNameResolvesToFirst ==
    /\ (CategoryResolverRan /\ Unwrap(args.category) = <<>>)
          => /\ ~CategoryResolverFailed
             /\ category = Some(1)
    /\ (SupplierResolverRan /\ Unwrap(args.supplier) = <<>>)
          => /\ ~SupplierResolverFailed
             /\ supplier_file = Some(1)

\* C9 happens: the empty supplier name given against several suppliers of
\* different names.
C9_Witness ==
    /\ SupplierResolverRan
    /\ Unwrap(args.supplier) = <<>>
    /\ Len(config.suppliers) > 1
    /\ config.suppliers[1].name # config.suppliers[Len(config.suppliers)].name
    /\ supplier_file = Some(1)

\* -------------------------------------------------------------- the run
Terminal == {"Done", "Failed", "Panicked"}

\* The configuration was read: GlobalConfig::read() returned Ok.
ConfigRead == pc # "ReadingConfig" /\ error.kind # "ConfigUnreadable"

\* C4: the parameters handed to the supplier hold the ad-hoc tags followed by
\* the resolved category's tags, in order and with duplicates kept, and the
\* category's aspect ratios (none when it has none); without a category they
\* hold the ad-hoc tags alone and no aspect ratio.
C4_ParametersComposed ==
    IsSome(parameters) =>
        LET p == Unwrap(parameters)
            n == Len(args.tags)
        IN  IF IsSome(category)
            THEN LET c == config.categories[Unwrap(category)]
                 IN  /\ Len(p.tags) = n + Len(c.tags)
                     /\ \A i \in 1..n : p.tags[i] = args.tags[i]
                     /\ \A j \in 1..Len(c.tags) : p.tags[n + j] = c.tags[j]
                     /\ c.aspect_ratios = None => p.aspect_ratios = <<>>
                     /\ IsSome(c.aspect_ratios)
                           => p.aspect_ratios = Unwrap(c.aspect_ratios)
            ELSE p.tags = args.tags /\ p.aspect_ratios = <<>>

\* C4 happens: two ad-hoc tags and a category of two tags, one tag in both,
\* reach the fetch.
C4_Witness ==
    /\ pc = "Fetching"
    /\ IsSome(category)
    /\ parameters = Some([tags |-> <<"t3", "t1", "t2", "t1">>,
                          aspect_ratios |-> <<"16:9", "21:9">>])

\* C5, as claimed: with no supplier configured the run fails with
\* NoCandidatesConfigured, whatever the other arguments, and no name is
\* resolved, no definition loaded and nothing fetched.
C5_NoSuppliersAlwaysReported ==
    (ConfigRead /\ config.suppliers = <<>> /\ pc \in Terminal)
        => /\ pc = "Failed"
           /\ error.kind = "NoCandidatesConfigured"
           /\ category = None
           /\ supplier_file = None
           /\ calls.load = 0
           /\ calls.fetch_one = 0

\* C5, amended: with no supplier configured the run never resolves a
\* supplier name, loads a definition or fetches, and it fails: with "No
\* suppliers defined" when no category is given or the category resolves,
\* and otherwise with the error of the category resolution, which runs first.
C5_NoSuppliersFails ==
    (ConfigRead /\ config.suppliers = <<>>)
        => /\ pc \in {"ResolvingCategory", "ComposingParameters",
                      "ResolvingSupplier", "Failed"}
           /\ supplier_file = None
           /\ calls.load = 0
           /\ calls.fetch_one = 0
           /\ pc = "Failed" =>
                \/ /\ error.kind = "NoCandidatesConfigured"
                   /\ error.message = "No suppliers defined in config file."
                   /\ IsSome(parameters)
                   /\ args.category = None \/ IsSome(category)
                \/ /\ IsSome(args.category)
                   /\ category = None
                   /\ parameters = None
                   /\ \/ /\ error.kind = "NoCandidatesConfigured"
                         /\ error.message = "No categories defined in config file."
                         /\ config.categories = <<>>
                      \/ /\ error.kind \in {"AmbiguousName", "UnknownName"}
                         /\ config.categories # <<>>

\* C5 happens: no supplier is configured, the category given resolves, and
\* the run fails with "No suppliers defined".
C5_Witness ==
    /\ config.suppliers = <<>>
    /\ IsSome(category)
    /\ pc = "Failed"
    /\ error.message = "No suppliers defined in config file."

\* The image was persisted: image_path is bound (line 189).
Persisted == IsSome(image_path)

\* C6: with the assign flag and no set_command, a run that got as far as
\* persisting the image fails with MissingApplyCommand, launches nothing and
\* leaves the persisted image in place.
C6_MissingCommandFails ==
    (args.assign /\ config.set_command = None /\ Persisted
        /\ pc # "ApplyingExternalCommand")
        => /\ pc = "Failed"
           /\ error.kind = "MissingApplyCommand"
           /\ launched = <<>>
           /\ apply = "NotRun"
           /\ Canonicalize(Unwrap(image_path)) \in files

\* C6 happens: an image saved to an explicit path, then MissingApplyCommand.
C6_Witness ==
    /\ args.assign
    /\ config.set_command = None
    /\ image_path = Some(RelativePath)
    /\ pc = "Failed"
    /\ error.kind = "MissingApplyCommand"
    /\ AbsolutePath \in files

ApplyFailed == apply \in {"LaunchFailed", "ExitNonZero", "ExitNonZeroNotUtf8"}

\* C7: a set_command that cannot be launched or exits with a failure is not
\* fatal: the run does not crash and does not fail because of it, in simple
\* mode and in normal mode, and the persisted image stays.
C7_ApplyFailureNotFatal ==
    ApplyFailed
        => /\ pc # "Panicked"
           /\ error.kind # "ApplyOutputNotUtf8"
           /\ Canonicalize(Unwrap(image_path)) \in files

\* The command line launched, when one was.
Launched == launched[1]

\* C8: with an explicit output path only save_to_format runs, once, and the
\* cache is not touched; without one only cache runs, once; and the path
\* handed to set_command for {path} and printed as the result of an
\* explicit-output run is the canonicalized explicit path.
C8_PersistedWhereAsked ==
    /\ IsSome(args.output)
          => /\ calls.cache = 0
             /\ CachePath \notin files
             /\ calls.save_to_format <= 1
    /\ args.output = None
          => /\ calls.save_to_format = 0
             /\ calls.cache <= 1
    /\ pc = "Done" => calls.save_to_format + calls.cache = 1
    /\ (IsSome(args.output) /\ launched # <<>>)
          => Launched = [program |-> SplitOnce(Unwrap(config.set_command)).program,
                         args |-> Split(Replace(SplitOnce(Unwrap(config.set_command)).args,
                                                Canonicalize(Unwrap(args.output))))]
    /\ (IsSome(args.output) /\ args.simple /\ pc = "Done")
          => stdout = <<Canonicalize(Unwrap(args.output))>>

\* The steps in their order; a step leads to the next one or to Failed (the
\* external command may also crash the run).
Order ==
    {<<"ReadingConfig", "ResolvingCategory">>,
     <<"ResolvingCategory", "ComposingParameters">>,
     <<"ComposingParameters", "ResolvingSupplier">>,
     <<"ResolvingSupplier", "LoadingSupplier">>,
     <<"LoadingSupplier", "Fetching">>,
     <<"Fetching", "Persisting">>,
     <<"Persisting", "ApplyingExternalCommand">>,
     <<"Persisting", "Reporting">>,
     <<"ApplyingExternalCommand", "Reporting">>,
     <<"ApplyingExternalCommand", "Panicked">>,
     <<"Reporting", "Done">>}

InOrder ==
    /\ pc \notin Terminal
    /\ <<pc, pc'>> \in Order \/ pc' = "Failed"
    /\ pc' = "ApplyingExternalCommand" => args.assign
    /\ category' # category => pc = "ResolvingCategory"
    /\ supplier_file' # supplier_file => pc = "ResolvingSupplier"
    /\ calls'.load # calls.load => pc = "LoadingSupplier"
    /\ calls'.fetch_one # calls.fetch_one => pc = "Fetching"
    /\ (calls'.save_to_format # calls.save_to_format \/ calls'.cache # calls.cache
          \/ files' # files \/ image_path' # image_path) => pc = "Persisting"
    /\ (launched' # launched \/ apply' # apply)
          => pc = "ApplyingExternalCommand" /\ args.assign /\ Persisted

AtMostOnce ==
    /\ calls.load <= 1
    /\ calls.fetch_one <= 1
    /\ calls.save_to_format + calls.cache <= 1
    /\ Len(launched) <= 1
    /\ calls.load = 1 => IsSome(supplier_file)
    /\ files # {} => calls.fetch_one = 1 /\ pc \notin {"Fetching"}

\* C10: every step of a run is the next step of the order category
\* resolution, supplier selection, definition load, fetch, persistence,
\* external command, Done, or the failure of the current step; nothing
\* happens after Done or Failed; one definition is loaded and fetch_one is
\* called at most once; nothing is persisted before the fetch succeeded; and
\* the command is launched only after persistence and with the assign flag.
C10_StepsInOrder == [][InOrder]_vars /\ []AtMostOnce

\* C10 happens: a run that resolved a category and a supplier, fetched,
\* cached, launched the command and ended Done.
C10_Witness ==
    /\ pc = "Done"
    /\ IsSome(category)
    /\ IsSome(args.supplier)
    /\ calls = [load |-> 1, fetch_one |-> 1, save_to_format |-> 0, cache |-> 1]
    /\ Len(launched) = 1
    /\ apply = "ExitZero"

====
